---- MODULE Spec2Model ----
(***************************************************************************)
(* OptiOR scheduling dashboard: the Dashboard component, the ScheduleModal *)
(* booking form with its room and surgeon availability checks, and the    *)
(* REST collaborator they talk to (src/web-app/components/types.ts).      *)
(*                                                                         *)
(* Timestamps are minutes on one absolute axis (a Date); a day is 24*60   *)
(* minutes and all dates are read in one fixed time zone.  A value of     *)
(* type `T | null` (or an optional field) is None or Some(x).  A case's   *)
(* extendedProps fields are kept flat on the case record.  patient_name,  *)
(* title and is_prediction take no part in any check and are left out.    *)
(***************************************************************************)
EXTENDS Integers, Sequences, FiniteSets, TLC

VARIABLES
    \* Dashboard state
    cases,            \* useState<SurgeryCase[]>: the in-memory case list
    isModalOpen,      \* useState(false)
    selectedDate,     \* useState<Date>
    editCase,         \* useState<SurgeryCase | null>
    \* ScheduleModal state
    prediction,       \* useState<number | null>
    isLoading,        \* useState(false)
    selectedSlot,     \* useState<{or, hour} | null>
    allDoctors,       \* useState<Record<string, string[]>>
    form,             \* react-hook-form values: service, booked_time, doctor_name
    \* the REST collaborator and the calls in flight
    server,           \* the backend's case list
    mutations,        \* number of create, update and delete requests sent so far
    fetchInFlight,    \* number of fetchData calls awaiting their response
    doctorsInFlight,  \* api.getDoctors() awaiting its response
    predictInFlight,  \* api.getPrediction requests awaiting their response
    avgInFlight,      \* api.getAveragePrediction requests awaiting their response
    submitInFlight,   \* api.createCase / api.updateCase requests awaiting their response
    deleteInFlight,   \* api.deleteCase requests awaiting their response
    toast,            \* the toast raised by the latest step ("" when none)
    out               \* the latest direct call of a checker: its arguments and result

vars == <<cases, isModalOpen, selectedDate, editCase, prediction, isLoading,
          selectedSlot, allDoctors, form, server, mutations, fetchInFlight,
          doctorsInFlight, predictInFlight, avgInFlight, submitInFlight,
          deleteInFlight, toast, out>>

dashboardVars == <<cases, isModalOpen, selectedDate, editCase>>
modalVars == <<prediction, isLoading, selectedSlot, allDoctors, form>>
netVars == <<server, mutations, fetchInFlight, doctorsInFlight, predictInFlight,
             avgInFlight, submitInFlight, deleteInFlight>>

----------------------------------------------------------------------------
\* Values

None == <<>>
Some(x) == <<x>>

\* JavaScript truthiness of a `number | null`: null, undefined and 0 are falsy.
Truthy(v) == v # None /\ v[1] # 0

\* `v || d` for a `number | null | undefined` v.
OrDefault(v, d) == IF Truthy(v) THEN v[1] ELSE d

MinutesPerDay == 24 * 60

\* date-fns addMinutes(date, amount)
addMinutes(t, m) == t + m

\* d = new Date(date); d.setHours(hour, 0, 0, 0)
setHours(date, hour) == (date \div MinutesPerDay) * MinutesPerDay + hour * 60

\* new Date(t).getHours()
getHours(t) == (t % MinutesPerDay) \div 60

----------------------------------------------------------------------------
\* Constants of ScheduleModal

OR_SUITES == <<"OR-1", "OR-2", "OR-3", "OR-4">>

TimeSlotCount == 11
FirstHour == 8
\* Array.from({ length: 11 }, (_, i) => 8 + i)
TIME_SLOTS == [i \in 1..TimeSlotCount |-> FirstHour + (i - 1)]

\* the `|| 60` of the checkers
FallbackDuration == 60

----------------------------------------------------------------------------
\* The availability checkers

\* const cStart = new Date(c.start)
caseStart(c) == c.start

\* c.end ? new Date(c.end) : addMinutes(cStart, c.extendedProps.actual_duration || 60)
caseEnd(c) ==
    IF c.end # None THEN c.end[1]
    ELSE addMinutes(caseStart(c), OrDefault(c.actual_duration, FallbackDuration))

\* overlaps with the bounds included: touching intervals would count as a conflict
overlapsClosed(slotStart, slotEnd, cStart, cEnd) == slotStart <= cEnd /\ slotEnd >= cStart
\* slotStart < cEnd && slotEnd > cStart
overlaps(slotStart, slotEnd, cStart, cEnd) == slotStart < cEnd /\ slotEnd > cStart

\* isSelf without the test: the edited case would count against itself
isSelfNever(edit, c) == FALSE
\* editCase && c.id === editCase.id
isSelf(edit, c) == edit # None /\ c.id = edit[1].id

\* roomBusy without the or_suite test: a case of any room would block the slot
roomBusyAnyRoom(c, edit, or, slotStart, slotEnd) ==
    IF isSelf(edit, c) THEN FALSE
    ELSE overlaps(slotStart, slotEnd, caseStart(c), caseEnd(c))
\* the callback of existingAndAllCases.some in isSlotAvailable
roomBusy(c, edit, or, slotStart, slotEnd) ==
    IF isSelf(edit, c) THEN FALSE
    ELSE IF c.or_suite # or THEN FALSE
    ELSE overlaps(slotStart, slotEnd, caseStart(c), caseEnd(c))

\* isSlotAvailable, with the props and state it closes over as parameters
isSlotAvailableIn(date, list, edit, or, hour, duration) ==
    LET slotStart == setHours(date, hour)
        slotEnd == addMinutes(slotStart, duration)
    IN \* !existingAndAllCases.some(c => ...)
       ~(\E i \in 1..Len(list) : roomBusy(list[i], edit, or, slotStart, slotEnd))

\* doctorBusy with a room test added: a surgeon busy in another room would stay listed
doctorBusySameRoom(c, edit, doc, slot, slotStart, slotEnd) ==
    IF isSelf(edit, c) THEN FALSE
    ELSE IF c.doctor_name # doc THEN FALSE
    ELSE IF c.or_suite # slot.or THEN FALSE
    ELSE overlaps(slotStart, slotEnd, caseStart(c), caseEnd(c))
\* the callback of existingAndAllCases.some in getAvailableDoctors (slot is the
\* selectedSlot the closure sees; the callback reads only its start and end)
doctorBusy(c, edit, doc, slot, slotStart, slotEnd) ==
    IF isSelf(edit, c) THEN FALSE
    ELSE IF c.doctor_name # doc THEN FALSE
    ELSE overlaps(slotStart, slotEnd, caseStart(c), caseEnd(c))

\* noSlotOrDuration with `=== null` for the falsy test: a prediction of 0 would filter
noSlotOrDurationNullOnly(slot, pred) == slot = None \/ pred = None
\* if (!selectedSlot || !prediction) return doctors
noSlotOrDuration(slot, pred) == slot = None \/ ~Truthy(pred)

\* getAvailableDoctors, with the props and state it closes over as parameters
getAvailableDoctorsIn(service, rosters, slot, pred, date, list, edit) ==
    IF service = "" \/ service \notin DOMAIN rosters THEN <<>>
    ELSE LET doctors == rosters[service] IN
         IF noSlotOrDuration(slot, pred) THEN doctors
         ELSE LET slotStart == setHours(date, slot[1].hour)
                  slotEnd == addMinutes(slotStart, pred[1])
              IN \* doctors.filter(doc => !existingAndAllCases.some(c => ...))
                 SelectSeq(doctors, LAMBDA doc :
                     ~(\E i \in 1..Len(list) :
                          doctorBusy(list[i], edit, doc, slot[1], slotStart, slotEnd)))

----------------------------------------------------------------------------
\* The slot grid of the modal's right-hand panel

RECURSIVE flat(_)
\* the buttons in document order: the rows of the outer map, one after another
flat(rows) == IF rows = <<>> THEN <<>> ELSE Head(rows) \o flat(Tail(rows))

\* one <button> of the grid
slotButton(date, list, edit, slot, or, hour, duration) ==
    [or |-> or, hour |-> hour,
     available |-> isSlotAvailableIn(date, list, edit, or, hour, duration),
     selected |-> slot # None /\ slot[1].or = or /\ slot[1].hour = hour]

\* slotRow that stops one hour early
slotRowShort(date, list, edit, slot, or, duration) ==
    [j \in 1..(Len(TIME_SLOTS) - 1) |->
        slotButton(date, list, edit, slot, or, TIME_SLOTS[j], duration)]
\* TIME_SLOTS.map(hour => <button/>) for one room
slotRow(date, list, edit, slot, or, duration) ==
    [j \in 1..Len(TIME_SLOTS) |->
        slotButton(date, list, edit, slot, or, TIME_SLOTS[j], duration)]

\* {!prediction ? <placeholder/> : OR_SUITES.map(or => TIME_SLOTS.map(...))}
slotGridIn(date, list, edit, slot, pred) ==
    IF ~Truthy(pred) THEN None
    ELSE Some(flat([i \in 1..Len(OR_SUITES) |->
                      slotRow(date, list, edit, slot, OR_SUITES[i], pred[1])]))

----------------------------------------------------------------------------
\* Data the collaborators hold

\* two consecutive days, each named by its midnight
Yesterday == 0 * MinutesPerDay
Today == 1 * MinutesPerDay

\* hour:minute of the day that starts at `day`
At(day, hour, minute) == day + hour * 60 + minute

\* GET /api/doctors
Rosters == [Orthopedics |-> <<"Dr. A", "Dr. B">>, General |-> <<"Dr. C">>]
NoRosters == [s \in {} |-> <<>>]

Case(id, or, start, end, duration, doctor, service) ==
    [id |-> id, start |-> start, end |-> end, or_suite |-> or, service |-> service,
     booked_time |-> 45, actual_duration |-> duration, doctor_name |-> doctor]

\* Stored cases of every shape the SurgeryCase type allows: a stored end, no end
\* with a positive, zero, negative or missing actual_duration, with and without a
\* surgeon, on and off the whole hour, inside one day and across midnight.
Pool ==
    << Case(1, "OR-1", At(Today, 9, 0), Some(At(Today, 11, 0)), Some(120), "Dr. A", "Orthopedics"),
       Case(2, "OR-2", At(Today, 10, 30), None, Some(0), "", "General"),
       Case(3, "OR-2", At(Today, 13, 0), None, Some(-30), "Dr. B", "Orthopedics"),
       Case(4, "OR-1", At(Yesterday, 20, 0), Some(At(Today, 9, 0)), Some(780), "Dr. A", "Orthopedics"),
       Case(5, "OR-3", At(Today, 8, 0), None, None, "Dr. B", "Orthopedics"),
       Case(6, "OR-3", At(Today, 15, 0), None, Some(90), "Dr. A", "Orthopedics"),
       Case(7, "OR-4", At(Today, 14, 30), None, Some(60), "Dr. C", "General") >>

\* the cases of Pool with an id in S, in Pool's order
SubPool(S) == SelectSeq(Pool, LAMBDA c : c.id \in S)

Range(list) == {list[i] : i \in 1..Len(list)}

----------------------------------------------------------------------------
\* Direct calls of the checkers, on inputs drawn from bounded sets: each behaviour
\* draws the props (case list, date, edited case) and makes one call.

MaxCaseListLen == 2

CheckerCaseLists ==
    {SubPool(S) : S \in {T \in SUBSET (1..Len(Pool)) : Cardinality(T) <= MaxCaseListLen}}

CheckerDates == {At(Today, 0, 0), At(Yesterday, 20, 0)}
CheckerDurations == {-30, 0, 60, 90}
CheckerPredictions == {None} \cup {Some(d) : d \in CheckerDurations}
CheckerSlots ==
    {None} \cup {Some([or |-> or, hour |-> h]) : or \in {"OR-1", "OR-2"}, h \in {8, 10, 11, 13, 15, 20}}
CheckerServices == {"", "Orthopedics", "Urology"}

NoCall == [fn |-> "none"]

CheckerInit ==
    /\ cases \in CheckerCaseLists
    /\ selectedDate \in CheckerDates
    /\ editCase \in {None} \cup {Some(c) : c \in Range(cases)}
    /\ isModalOpen = TRUE
    /\ prediction = None
    /\ isLoading = FALSE
    /\ selectedSlot = None
    /\ allDoctors = NoRosters
    /\ form = [service |-> "", booked_time |-> 0, doctor_name |-> ""]
    /\ server = cases
    /\ mutations = 0
    /\ fetchInFlight = 0
    /\ doctorsInFlight = FALSE
    /\ predictInFlight = {}
    /\ avgInFlight = {}
    /\ submitInFlight = {}
    /\ deleteInFlight = {}
    /\ toast = ""
    /\ out = NoCall

\* isSlotAvailable(or, hour, duration)
CallIsSlotAvailable ==
    /\ out = NoCall
    /\ \E i \in 1..Len(OR_SUITES), j \in 1..Len(TIME_SLOTS), duration \in CheckerDurations :
        /\ out' = [fn |-> "isSlotAvailable", or |-> OR_SUITES[i], hour |-> TIME_SLOTS[j],
                   duration |-> duration,
                   result |-> isSlotAvailableIn(selectedDate, cases, editCase,
                                                OR_SUITES[i], TIME_SLOTS[j], duration)]
        /\ UNCHANGED <<dashboardVars, modalVars, netVars, toast>>

\* getAvailableDoctors()
CallGetAvailableDoctors ==
    /\ out = NoCall
    /\ \E service \in CheckerServices, rosters \in {NoRosters, Rosters},
       slot \in CheckerSlots, pred \in CheckerPredictions :
        /\ out' = [fn |-> "getAvailableDoctors", service |-> service, rosters |-> rosters,
                   slot |-> slot, pred |-> pred,
                   result |-> getAvailableDoctorsIn(service, rosters, slot, pred,
                                                    selectedDate, cases, editCase)]
        /\ UNCHANGED <<dashboardVars, modalVars, netVars, toast>>

\* one render of the slot panel
CallSlotGrid ==
    /\ out = NoCall
    /\ \E slot \in CheckerSlots, pred \in CheckerPredictions :
        /\ out' = [fn |-> "slotGrid", slot |-> slot, pred |-> pred,
                   result |-> slotGridIn(selectedDate, cases, editCase, slot, pred)]
        /\ UNCHANGED <<dashboardVars, modalVars, netVars, toast>>

CheckerNext == CallIsSlotAvailable \/ CallGetAvailableDoctors \/ CallSlotGrid

CheckerSpec == CheckerInit /\ [][CheckerNext]_vars

----------------------------------------------------------------------------
\* The dashboard, the modal and the backend as one state machine

MaxFetchInFlight == 1
MaxMutations == 1

\* the backend's cases when the page loads
Seed == SubPool({1, 2, 7})

\* new Date() when the page loads
Now == At(Today, 7, 30)

\* what the user may pick or type, and what the prediction services may answer
ClickDates == {At(Today, 7, 30)}       \* arg.date of a click on the calendar
ClickSlots == {[or |-> "OR-1", hour |-> 8], [or |-> "OR-1", hour |-> 10],
               [or |-> "OR-2", hour |-> 8]}
PickServices == {"Orthopedics", "General"}
TypedTimes == {45}
PredictionValues == {-30, 0, 60, 120}
AverageValues == {0, 45}

\* defaultValues of useForm (and of form.reset in create mode)
EmptyForm == [service |-> "", booked_time |-> 0, doctor_name |-> ""]

Init ==
    /\ cases = <<>>
    /\ isModalOpen = FALSE
    /\ selectedDate = Now
    /\ editCase = None
    /\ prediction = None
    /\ isLoading = FALSE
    /\ selectedSlot = None
    /\ allDoctors = NoRosters
    /\ form = EmptyForm
    /\ server = Seed
    /\ mutations = 0
    /\ fetchInFlight = 1         \* the mount effect of Dashboard calls fetchData
    /\ doctorsInFlight = TRUE    \* the mount effect of ScheduleModal calls api.getDoctors
    /\ predictInFlight = {}
    /\ avgInFlight = {}
    /\ submitInFlight = {}
    /\ deleteInFlight = {}
    /\ toast = ""
    /\ out = NoCall

\* the closures of one render of ScheduleModal
isSlotAvailable(or, hour, duration) ==
    isSlotAvailableIn(selectedDate, cases, editCase, or, hour, duration)
availableDoctors ==
    getAvailableDoctorsIn(form.service, allDoctors, selectedSlot, prediction,
                          selectedDate, cases, editCase)
\* the "Select OR Slot" panel of that render: None stands for the placeholder
slotGrid == slotGridIn(selectedDate, cases, editCase, selectedSlot, prediction)

\* ---- the backend (POST, PUT, DELETE /api/cases)

Max(S) == CHOOSE x \in S : \A y \in S : y <= x
NewId(list) == Max({c.id : c \in Range(Pool) \cup Range(list)}) + 1

CaseOf(id, payload) ==
    [id |-> id, start |-> payload.wheels_in, end |-> Some(payload.wheels_out),
     or_suite |-> payload.or_suite, service |-> payload.service,
     booked_time |-> payload.booked_time,
     actual_duration |-> Some(payload.actual_duration),
     doctor_name |-> payload.doctor_name]

serverCreate(list, payload) == Append(list, CaseOf(NewId(list), payload))
serverUpdate(list, id, payload) ==
    [i \in 1..Len(list) |-> IF list[i].id = id THEN CaseOf(id, payload) ELSE list[i]]
serverDelete(list, id) == SelectSeq(list, LAMBDA c : c.id # id)

\* ---- Dashboard

\* fetchData: the try branch
FetchSucceed ==
    /\ fetchInFlight > 0
    /\ fetchInFlight' = fetchInFlight - 1
    /\ cases' = server
    /\ toast' = ""
    /\ UNCHANGED <<isModalOpen, selectedDate, editCase, modalVars, server, mutations,
                   doctorsInFlight, predictInFlight, avgInFlight, submitInFlight,
                   deleteInFlight, out>>

\* fetchData: the catch branch
FetchFail ==
    /\ fetchInFlight > 0
    /\ fetchInFlight' = fetchInFlight - 1
    /\ toast' = ""
    /\ UNCHANGED <<dashboardVars, modalVars, server, mutations, doctorsInFlight,
                   predictInFlight, avgInFlight, submitInFlight, deleteInFlight, out>>

\* setFilterPeriod: the effect on [filterPeriod] calls fetchData again (the user
\* changes the period at most MaxFetchInFlight times while a fetch is pending)
ChangeFilterPeriod ==
    /\ ~isModalOpen
    /\ fetchInFlight < MaxFetchInFlight
    /\ fetchInFlight' = fetchInFlight + 1
    /\ toast' = ""
    /\ UNCHANGED <<dashboardVars, modalVars, server, mutations, doctorsInFlight,
                   predictInFlight, avgInFlight, submitInFlight, deleteInFlight, out>>

\* handleDateClick and the "New Schedule" button, then the open effect in create mode
\* (the user opens the modal as long as a mutation may still be sent: the behaviours
\* end with the refresh that follows the last of the MaxMutations requests)
OpenCreate ==
    /\ ~isModalOpen
    /\ mutations < MaxMutations
    /\ \E date \in ClickDates \cup {Now} : selectedDate' = date
    /\ editCase' = None
    /\ isModalOpen' = TRUE
    /\ form' = EmptyForm
    /\ prediction' = None
    /\ selectedSlot' = None
    /\ toast' = ""
    /\ UNCHANGED <<cases, isLoading, allDoctors, netVars, out>>

\* handleEventClick (and a click in "Upcoming Today"), then the open effect in edit mode
OpenEdit ==
    /\ ~isModalOpen
    /\ mutations < MaxMutations
    /\ \E i \in 1..Len(cases) :
        LET clickedCase == cases[i] IN
        /\ editCase' = Some(clickedCase)
        /\ selectedDate' = clickedCase.start
        /\ form' = [service |-> clickedCase.service,
                    booked_time |-> clickedCase.booked_time,
                    doctor_name |-> clickedCase.doctor_name]
        /\ prediction' = IF Truthy(clickedCase.actual_duration)
                         THEN clickedCase.actual_duration ELSE None
        /\ selectedSlot' = Some([or |-> clickedCase.or_suite,
                                 hour |-> getHours(clickedCase.start)])
    /\ isModalOpen' = TRUE
    /\ toast' = ""
    /\ UNCHANGED <<cases, isLoading, allDoctors, netVars, out>>

\* onClose through the dialog's onOpenChange
CloseModal ==
    /\ isModalOpen
    /\ isModalOpen' = FALSE
    /\ toast' = ""
    /\ UNCHANGED <<cases, selectedDate, editCase, modalVars, netVars, out>>

\* ---- ScheduleModal

\* api.getDoctors().then(setAllDoctors)
DoctorsLoaded ==
    /\ doctorsInFlight
    /\ doctorsInFlight' = FALSE
    /\ allDoctors' = Rosters
    /\ toast' = ""
    /\ UNCHANGED <<dashboardVars, prediction, isLoading, selectedSlot, form, server,
                   mutations, fetchInFlight, predictInFlight, avgInFlight, submitInFlight,
                   deleteInFlight, out>>

\* api.getDoctors().catch(console.error)
DoctorsFailed ==
    /\ doctorsInFlight
    /\ doctorsInFlight' = FALSE
    /\ toast' = ""
    /\ UNCHANGED <<dashboardVars, modalVars, server, mutations, fetchInFlight,
                   predictInFlight, avgInFlight, submitInFlight, deleteInFlight, out>>

\* ChangeSpecialty without form.setValue('doctor_name', ''): the surgeon would stay
ChangeSpecialtyKeepsDoctor ==
    /\ isModalOpen
    /\ \E val \in PickServices :
        /\ val # form.service
        /\ form' = [form EXCEPT !.service = val]
        /\ avgInFlight' = avgInFlight \cup {val}
    /\ toast' = "Consulting AI Model..."
    /\ UNCHANGED <<dashboardVars, prediction, isLoading, selectedSlot, allDoctors, server,
                   mutations, fetchInFlight, doctorsInFlight, predictInFlight,
                   submitInFlight, deleteInFlight, out>>
\* the specialty select's onValueChange, up to its await (the select is
\* controlled by field.value and reports a pick only when the value changes)
ChangeSpecialty ==
    /\ isModalOpen
    /\ \E val \in PickServices :
        /\ val # form.service
        /\ form' = [form EXCEPT !.service = val, !.doctor_name = ""]
        /\ avgInFlight' = avgInFlight \cup {val}
    /\ toast' = "Consulting AI Model..."
    /\ UNCHANGED <<dashboardVars, prediction, isLoading, selectedSlot, allDoctors, server,
                   mutations, fetchInFlight, doctorsInFlight, predictInFlight,
                   submitInFlight, deleteInFlight, out>>

\* onValueChange after api.getAveragePrediction resolved
AverageSucceed ==
    /\ \E val \in avgInFlight, res \in AverageValues :
        /\ avgInFlight' = avgInFlight \ {val}
        /\ IF res # 0
           THEN /\ form' = [form EXCEPT !.booked_time = res]
                /\ toast' = "AI Model Suggested"
           ELSE /\ form' = form
                /\ toast' = ""
    /\ UNCHANGED <<dashboardVars, prediction, isLoading, selectedSlot, allDoctors, server,
                   mutations, fetchInFlight, doctorsInFlight, predictInFlight,
                   submitInFlight, deleteInFlight, out>>

\* onValueChange after api.getAveragePrediction rejected
AverageFail ==
    /\ \E val \in avgInFlight : avgInFlight' = avgInFlight \ {val}
    /\ toast' = "Could not fetch suggested time"
    /\ UNCHANGED <<dashboardVars, modalVars, server, mutations, fetchInFlight,
                   doctorsInFlight, predictInFlight, submitInFlight, deleteInFlight, out>>

\* the user types into "Est. Time (min)"
TypeBookedTime ==
    /\ isModalOpen
    /\ \E t \in TypedTimes : form' = [form EXCEPT !.booked_time = t]
    /\ toast' = ""
    /\ UNCHANGED <<dashboardVars, prediction, isLoading, selectedSlot, allDoctors, netVars,
                   out>>

\* the surgeon select's onValueChange: the items are availableDoctors
SelectDoctor ==
    /\ isModalOpen
    /\ form.service # ""
    /\ \E k \in 1..Len(availableDoctors) :
        form' = [form EXCEPT !.doctor_name = availableDoctors[k]]
    /\ toast' = ""
    /\ UNCHANGED <<dashboardVars, prediction, isLoading, selectedSlot, allDoctors, netVars,
                   out>>

\* handlePredict with service or booked_time missing
PredictRejected ==
    /\ isModalOpen
    /\ ~isLoading
    /\ form.service = "" \/ form.booked_time = 0
    /\ toast' = "Please fill Service and Booked Time"
    /\ UNCHANGED <<dashboardVars, modalVars, netVars, out>>

\* PredictStart with the "Get AI Suggestion" button never disabled
PredictStartAnytime ==
    /\ isModalOpen
    /\ ~(form.service = "" \/ form.booked_time = 0)
    /\ isLoading' = TRUE
    /\ predictInFlight' = predictInFlight \cup
            {[date |-> selectedDate, service |-> form.service,
              booked_time |-> form.booked_time]}
    /\ toast' = ""
    /\ UNCHANGED <<dashboardVars, prediction, selectedSlot, allDoctors, form, server,
                   mutations, fetchInFlight, doctorsInFlight, avgInFlight, submitInFlight,
                   deleteInFlight, out>>
\* handlePredict up to its await
PredictStart ==
    /\ isModalOpen
    /\ ~isLoading
    /\ ~(form.service = "" \/ form.booked_time = 0)
    /\ isLoading' = TRUE
    /\ predictInFlight' = predictInFlight \cup
            {[date |-> selectedDate, service |-> form.service,
              booked_time |-> form.booked_time]}
    /\ toast' = ""
    /\ UNCHANGED <<dashboardVars, prediction, selectedSlot, allDoctors, form, server,
                   mutations, fetchInFlight, doctorsInFlight, avgInFlight, submitInFlight,
                   deleteInFlight, out>>

\* handlePredict after api.getPrediction resolved
PredictSucceed ==
    /\ \E req \in predictInFlight, res \in PredictionValues :
        /\ predictInFlight' = predictInFlight \ {req}
        /\ prediction' = Some(res)
    /\ toast' = "Predicted Duration"
    /\ isLoading' = FALSE
    /\ UNCHANGED <<dashboardVars, selectedSlot, allDoctors, form, server, mutations,
                   fetchInFlight, doctorsInFlight, avgInFlight, submitInFlight,
                   deleteInFlight, out>>

\* handlePredict after api.getPrediction rejected
PredictFail ==
    /\ \E req \in predictInFlight : predictInFlight' = predictInFlight \ {req}
    /\ toast' = "Prediction failed"
    /\ isLoading' = FALSE
    /\ UNCHANGED <<dashboardVars, prediction, selectedSlot, allDoctors, form, server,
                   mutations, fetchInFlight, doctorsInFlight, avgInFlight, submitInFlight,
                   deleteInFlight, out>>

\* SelectSlot with every button of the grid enabled
SelectSlotAny ==
    /\ isModalOpen
    /\ Truthy(prediction)
    /\ \E slot \in ClickSlots : selectedSlot' = Some(slot)
    /\ toast' = ""
    /\ UNCHANGED <<dashboardVars, prediction, isLoading, allDoctors, form, netVars, out>>
\* a click on an enabled button of the slot grid
SelectSlot ==
    /\ isModalOpen
    /\ Truthy(prediction)
    /\ \E slot \in ClickSlots :
        /\ isSlotAvailable(slot.or, slot.hour, prediction[1])
        /\ selectedSlot' = Some(slot)
    /\ toast' = ""
    /\ UNCHANGED <<dashboardVars, prediction, isLoading, allDoctors, form, netVars, out>>

\* the submit button is enabled and the zod schema accepts the values
\* (a patient name is typed)
CanSubmit ==
    /\ isModalOpen
    /\ ~isLoading
    /\ selectedSlot # None
    /\ form.service # ""
    /\ form.booked_time >= 1

\* SubmitRejected with setIsLoading(true) moved above the test
SubmitRejectedLoading ==
    /\ CanSubmit
    /\ selectedSlot = None \/ ~Truthy(prediction)
    /\ toast' = "Please select a time slot after getting prediction."
    /\ isLoading' = TRUE
    /\ UNCHANGED <<dashboardVars, prediction, selectedSlot, allDoctors, form, netVars, out>>
\* onSubmit without a slot or a prediction
SubmitRejected ==
    /\ CanSubmit
    /\ selectedSlot = None \/ ~Truthy(prediction)
    /\ toast' = "Please select a time slot after getting prediction."
    /\ UNCHANGED <<dashboardVars, modalVars, netVars, out>>

\* the payload onSubmit builds
Payload ==
    LET startTime == setHours(selectedDate, selectedSlot[1].hour)
        endTime == addMinutes(startTime, prediction[1])
    IN [date |-> selectedDate, service |-> form.service, booked_time |-> form.booked_time,
        or_suite |-> selectedSlot[1].or, duration |-> prediction[1],
        wheels_in |-> startTime, wheels_out |-> endTime,
        actual_duration |-> prediction[1], doctor_name |-> form.doctor_name]

\* onSubmit up to its await
SubmitStart ==
    /\ CanSubmit
    /\ ~(selectedSlot = None \/ ~Truthy(prediction))
    /\ mutations < MaxMutations
    /\ mutations' = mutations + 1
    /\ isLoading' = TRUE
    /\ submitInFlight' = submitInFlight \cup
            {IF editCase # None
             THEN [kind |-> "update", id |-> editCase[1].id, payload |-> Payload]
             ELSE [kind |-> "create", id |-> 0, payload |-> Payload]}
    /\ toast' = ""
    /\ UNCHANGED <<dashboardVars, prediction, selectedSlot, allDoctors, form, server,
                   fetchInFlight, doctorsInFlight, predictInFlight, avgInFlight,
                   deleteInFlight, out>>

\* SubmitSucceed without onSuccess(): the modal closes and nothing is fetched
SubmitSucceedNoRefresh ==
    /\ \E req \in submitInFlight :
        /\ req.kind = "update" => \E c \in Range(server) : c.id = req.id
        /\ submitInFlight' = submitInFlight \ {req}
        /\ server' = IF req.kind = "update"
                     THEN serverUpdate(server, req.id, req.payload)
                     ELSE serverCreate(server, req.payload)
        /\ toast' = IF req.kind = "update" THEN "Schedule Updated" ELSE "Schedule Created"
    /\ isModalOpen' = FALSE
    /\ isLoading' = FALSE
    /\ UNCHANGED <<cases, selectedDate, editCase, prediction, selectedSlot, allDoctors,
                   form, mutations, fetchInFlight, doctorsInFlight, predictInFlight,
                   avgInFlight, deleteInFlight, out>>
\* onSubmit after api.createCase / api.updateCase resolved: onClose(), onSuccess()
SubmitSucceed ==
    /\ \E req \in submitInFlight :
        /\ req.kind = "update" => \E c \in Range(server) : c.id = req.id
        /\ submitInFlight' = submitInFlight \ {req}
        /\ server' = IF req.kind = "update"
                     THEN serverUpdate(server, req.id, req.payload)
                     ELSE serverCreate(server, req.payload)
        /\ toast' = IF req.kind = "update" THEN "Schedule Updated" ELSE "Schedule Created"
    /\ isModalOpen' = FALSE
    /\ fetchInFlight' = fetchInFlight + 1
    /\ isLoading' = FALSE
    /\ UNCHANGED <<cases, selectedDate, editCase, prediction, selectedSlot, allDoctors,
                   form, mutations, doctorsInFlight, predictInFlight, avgInFlight,
                   deleteInFlight, out>>

\* SubmitFail that goes on to onClose() and onSuccess() as the try branch does
SubmitFailCloses ==
    /\ \E req \in submitInFlight : submitInFlight' = submitInFlight \ {req}
    /\ toast' = "Failed to save schedule"
    /\ isModalOpen' = FALSE
    /\ fetchInFlight' = fetchInFlight + 1
    /\ isLoading' = FALSE
    /\ UNCHANGED <<cases, selectedDate, editCase, prediction, selectedSlot, allDoctors,
                   form, server, mutations, doctorsInFlight, predictInFlight, avgInFlight,
                   deleteInFlight, out>>
\* onSubmit after api.createCase / api.updateCase rejected
SubmitFail ==
    /\ \E req \in submitInFlight : submitInFlight' = submitInFlight \ {req}
    /\ toast' = "Failed to save schedule"
    /\ isLoading' = FALSE
    /\ UNCHANGED <<dashboardVars, prediction, selectedSlot, allDoctors, form, server,
                   mutations, fetchInFlight, doctorsInFlight, predictInFlight, avgInFlight,
                   deleteInFlight, out>>

\* handleDelete up to its await
DeleteStart ==
    /\ isModalOpen
    /\ ~isLoading
    /\ editCase # None
    /\ mutations < MaxMutations
    /\ mutations' = mutations + 1
    /\ isLoading' = TRUE
    /\ deleteInFlight' = deleteInFlight \cup {editCase[1].id}
    /\ toast' = ""
    /\ UNCHANGED <<dashboardVars, prediction, selectedSlot, allDoctors, form, server,
                   fetchInFlight, doctorsInFlight, predictInFlight, avgInFlight,
                   submitInFlight, out>>

\* handleDelete after api.deleteCase resolved: onClose(), onSuccess()
DeleteSucceed ==
    /\ \E id \in deleteInFlight :
        /\ \E c \in Range(server) : c.id = id
        /\ deleteInFlight' = deleteInFlight \ {id}
        /\ server' = serverDelete(server, id)
    /\ toast' = "Surgery Deleted"
    /\ isModalOpen' = FALSE
    /\ fetchInFlight' = fetchInFlight + 1
    /\ isLoading' = FALSE
    /\ UNCHANGED <<cases, selectedDate, editCase, prediction, selectedSlot, allDoctors,
                   form, mutations, doctorsInFlight, predictInFlight, avgInFlight,
                   submitInFlight, out>>

\* handleDelete after api.deleteCase rejected
DeleteFail ==
    /\ \E id \in deleteInFlight : deleteInFlight' = deleteInFlight \ {id}
    /\ toast' = "Failed to delete"
    /\ isLoading' = FALSE
    /\ UNCHANGED <<dashboardVars, prediction, selectedSlot, allDoctors, form, server,
                   mutations, fetchInFlight, doctorsInFlight, predictInFlight, avgInFlight,
                   submitInFlight, out>>

Next ==
    \/ FetchSucceed \/ FetchFail \/ ChangeFilterPeriod
    \/ OpenCreate \/ OpenEdit \/ CloseModal
    \/ DoctorsLoaded \/ DoctorsFailed
    \/ ChangeSpecialty \/ AverageSucceed \/ AverageFail \/ TypeBookedTime \/ SelectDoctor
    \/ PredictRejected \/ PredictStart \/ PredictSucceed \/ PredictFail
    \/ SelectSlot
    \/ SubmitRejected \/ SubmitStart \/ SubmitSucceed \/ SubmitFail
    \/ DeleteStart \/ DeleteSucceed \/ DeleteFail

Spec == Init /\ [][Next]_vars

----------------------------------------------------------------------------
\* Vocabulary of the properties

\* midnight of the day that holds t
DayStart(t) == t - (t % MinutesPerDay)

\* the cases a check counts: all of them, but the edited one
Others(list, edit) == {c \in Range(list) : edit = None \/ c.id # edit[1].id}

\* the end the checkers give a stored case
EffectiveEnd(c) ==
    CASE c.end # None -> c.end[1]
      [] c.end = None /\ (c.actual_duration = None \/ c.actual_duration[1] = 0) -> c.start + 60
      [] OTHER -> c.start + c.actual_duration[1]

\* [s, e) and the stored case c overlap under the half-open rule
Conflicts(s, e, c) == s < EffectiveEnd(c) /\ e > c.start

\* [s, e) and the stored case c are back to back
Touches(s, e, c) == e = c.start \/ s = EffectiveEnd(c)

\* the roster getAvailableDoctors starts from
RosterOf(service, rosters) == IF service \in DOMAIN rosters THEN rosters[service] ELSE <<>>

IsRoomCall == out.fn = "isSlotAvailable"
IsDoctorCall == out.fn = "getAvailableDoctors"
IsGridCall == out.fn = "slotGrid"
RoomCallStart == DayStart(selectedDate) + 60 * out.hour
RoomCallEnd == RoomCallStart + out.duration
DoctorCallFilters == IsDoctorCall /\ out.slot # None /\ out.pred # None /\ out.pred[1] # 0
DoctorCallStart == DayStart(selectedDate) + 60 * out.slot[1].hour
DoctorCallEnd == DoctorCallStart + out.pred[1]

----------------------------------------------------------------------------
\* C1: isSlotAvailable(or, hour, duration) is false exactly when some case other
\* than the edited one has or_suite = or and an effective interval [cStart, cEnd)
\* with slotStart < cEnd and slotEnd > cStart, where slotStart is the selected date
\* at hour:00 and slotEnd is slotStart + duration minutes; it is true otherwise
\* (empty list, no case in the room, only non-overlapping cases).  The comparison
\* is on absolute timestamps, whatever the dates of the cases.
C1_IsSlotAvailable ==
    IsRoomCall =>
        out.result = ~(\E c \in Others(cases, editCase) :
                          c.or_suite = out.or /\ Conflicts(RoomCallStart, RoomCallEnd, c))

\* a slot refused because of a case that began on the day before
C1_Witness ==
    /\ IsRoomCall
    /\ out.result = FALSE
    /\ \A c \in Others(cases, editCase) :
          (c.or_suite = out.or /\ Conflicts(RoomCallStart, RoomCallEnd, c))
              => c.start < DayStart(selectedDate)

\* C4: touching intervals are no conflict.  A case whose start equals the slot's
\* end, or whose effective end equals the slot's start, never makes a room or a
\* surgeon busy: each check answers as it does with those cases taken away.
C4_Touching ==
    /\ IsRoomCall =>
          out.result = isSlotAvailableIn(selectedDate,
                           SelectSeq(cases, LAMBDA c : ~Touches(RoomCallStart, RoomCallEnd, c)),
                           editCase, out.or, out.hour, out.duration)
    /\ DoctorCallFilters =>
          out.result = getAvailableDoctorsIn(out.service, out.rosters, out.slot, out.pred,
                           selectedDate,
                           SelectSeq(cases, LAMBDA c : ~Touches(DoctorCallStart, DoctorCallEnd, c)),
                           editCase)

\* a slot of the room of a case that ends right where the case starts, reported free
C4_Witness ==
    /\ IsRoomCall
    /\ out.duration > 0
    /\ out.result = TRUE
    /\ \E c \in Others(cases, editCase) : c.or_suite = out.or /\ RoomCallEnd = c.start
    /\ editCase = None

\* C5: self-exclusion during edit.  While case X is edited both checks answer as
\* they would in create mode on the case list without X, so X's own booking is
\* ignored and every other case still counts; in create mode no case is left out.
C5_SelfExclusion ==
    LET withoutEdited == SelectSeq(cases, LAMBDA c : c.id # editCase[1].id) IN
    /\ (IsRoomCall /\ editCase # None) =>
          out.result = isSlotAvailableIn(selectedDate, withoutEdited, None,
                                         out.or, out.hour, out.duration)
    /\ (DoctorCallFilters /\ editCase # None) =>
          out.result = getAvailableDoctorsIn(out.service, out.rosters, out.slot, out.pred,
                                             selectedDate, withoutEdited, None)
    /\ (IsRoomCall /\ editCase = None) =>
          out.result = ~(\E c \in Range(cases) :
                            c.or_suite = out.or /\ Conflicts(RoomCallStart, RoomCallEnd, c))
    /\ (DoctorCallFilters /\ editCase = None) =>
          \A doc \in Range(RosterOf(out.service, out.rosters)) :
              doc \in Range(out.result) <=>
                  ~(\E c \in Range(cases) :
                       c.doctor_name = doc /\ Conflicts(DoctorCallStart, DoctorCallEnd, c))

\* a slot that only the edited case itself occupies, reported free
C5_Witness ==
    /\ IsRoomCall
    /\ editCase # None
    /\ editCase[1] \in Range(cases)
    /\ editCase[1].or_suite = out.or
    /\ Conflicts(RoomCallStart, RoomCallEnd, editCase[1])
    /\ out.result = TRUE
    /\ Len(cases) > 1

\* C6: with a slot selected and a duration known, getAvailableDoctors returns
\* exactly the surgeons of the specialty's roster, in roster order, for whom no
\* case other than the edited one with that doctor_name overlaps
\* [slotStart, slotStart + duration).  No room enters the answer, and a case
\* without a surgeon removes nobody.
C6_AvailableDoctors ==
    DoctorCallFilters =>
        out.result = SelectSeq(RosterOf(out.service, out.rosters),
                         LAMBDA doc : ~(\E c \in Others(cases, editCase) :
                                           /\ c.doctor_name = doc
                                           /\ Conflicts(DoctorCallStart, DoctorCallEnd, c)))

\* a surgeon busy in another room is left out although the chosen room is free
C6_Witness ==
    /\ DoctorCallFilters
    /\ out.service = "Orthopedics"
    /\ out.rosters = Rosters
    /\ out.result = <<"Dr. B">>
    /\ isSlotAvailableIn(selectedDate, cases, editCase, out.slot[1].or, out.slot[1].hour,
                         out.pred[1])
    /\ \E c \in Range(cases) : c.doctor_name = ""

\* C7: without a selected slot or without a known duration getAvailableDoctors
\* returns the full roster of the specialty, unfiltered and in roster order.
C7_FullRoster ==
    (IsDoctorCall /\ (out.slot = None \/ out.pred = None \/ out.pred = Some(0))) =>
        out.result = RosterOf(out.service, out.rosters)

\* a slot inside a surgeon's case and no duration: the surgeon is still listed
C7_Witness ==
    /\ IsDoctorCall
    /\ out.slot # None
    /\ out.pred = Some(0)
    /\ out.result = <<"Dr. A", "Dr. B">>
    /\ \E c \in Others(cases, editCase) :
          /\ c.doctor_name = "Dr. A"
          /\ c.start < DayStart(selectedDate) + 60 * out.slot[1].hour
          /\ DayStart(selectedDate) + 60 * out.slot[1].hour < EffectiveEnd(c)

\* C8: a shown slot grid holds one slot per (room, hour) of OR-1..OR-4 and
\* 8..18, 44 slots, room-major and hour-ascending, each flagged
\* isSlotAvailable(room, hour, duration).
C8_SlotGrid ==
    (IsGridCall /\ out.result # None) =>
        LET grid == out.result[1] IN
        /\ Len(grid) = 44
        /\ \A k \in 1..44 :
              /\ grid[k].or = <<"OR-1", "OR-2", "OR-3", "OR-4">>[((k - 1) \div 11) + 1]
              /\ grid[k].hour = 8 + ((k - 1) % 11)
              /\ grid[k].available = isSlotAvailableIn(selectedDate, cases, editCase,
                                                       grid[k].or, grid[k].hour, out.pred[1])

\* a shown grid with free and taken slots
C8_Witness ==
    /\ IsGridCall
    /\ out.result # None
    /\ \E k \in 1..Len(out.result[1]) : out.result[1][k].available
    /\ \E k \in 1..Len(out.result[1]) : ~out.result[1][k].available

\* the end C9 gives a stored case
ClaimedEnd(c) ==
    IF c.end # None THEN c.end[1]
    ELSE IF c.actual_duration # None /\ c.actual_duration[1] > 0
         THEN c.start + c.actual_duration[1]
         ELSE c.start + 60

\* C9: the effective interval of a stored case in both checkers starts at
\* case.start and ends at case.end when present, else at start + actual_duration
\* when that is positive, else (absent, zero or negative) at start + 60: both
\* checkers answer as the half-open rule does on these intervals.
C9_EffectiveInterval ==
    /\ IsRoomCall =>
          out.result = ~(\E c \in Others(cases, editCase) :
                            /\ c.or_suite = out.or
                            /\ RoomCallStart < ClaimedEnd(c)
                            /\ RoomCallEnd > c.start)
    /\ DoctorCallFilters =>
          out.result = SelectSeq(RosterOf(out.service, out.rosters),
                           LAMBDA doc : ~(\E c \in Others(cases, editCase) :
                                             /\ c.doctor_name = doc
                                             /\ DoctorCallStart < ClaimedEnd(c)
                                             /\ DoctorCallEnd > c.start))

\* C10: a zero or negative candidate duration is an empty interval:
\* isSlotAvailable(or, hour, duration) with duration <= 0 is true for every room,
\* hour and case list.
C10_EmptyInterval ==
    (IsRoomCall /\ out.duration <= 0) => out.result = TRUE

----------------------------------------------------------------------------
\* two stored cases share a room and their effective intervals overlap
DoubleBooked(a, b) ==
    /\ a.or_suite = b.or_suite
    /\ a.start < EffectiveEnd(b)
    /\ EffectiveEnd(a) > b.start

\* C2: starting from a case list without two overlapping cases in one room,
\* after any sequence of modal interactions (open, predict, select slot, submit,
\* delete, refresh) no two cases of the case list that share a room overlap.
C2_RoomInvariant ==
    \A i, j \in 1..Len(cases) : i # j => ~DoubleBooked(cases[i], cases[j])

\* C3: a selected slot is validated again at submit: onSubmit sends a createCase
\* or updateCase request only if the selected (room, hour) is available for the
\* current duration on the case list of that moment.
C3_RevalidatedAtSubmit ==
    [][(submitInFlight' \ submitInFlight # {}) =>
            isSlotAvailable(selectedSlot[1].or, selectedSlot[1].hour, prediction[1])]_vars

----------------------------------------------------------------------------
\* the duration the modal knows is missing, zero or negative
InvalidDuration == prediction = None \/ prediction[1] <= 0

\* C11: InvalidDuration is handled consistently.  Whenever the known duration is
\* missing, zero or negative, the slot grid is not enumerated at all or every
\* slot is flagged unavailable: no state of the open modal offers a slot as
\* available for such a duration.
C11_InvalidDuration ==
    (isModalOpen /\ InvalidDuration) =>
        \/ slotGrid = None
        \/ \A k \in 1..Len(slotGrid[1]) : ~slotGrid[1][k].available

\* a click on the submit button would send a create or update request
SubmitEnabled == CanSubmit /\ Truthy(prediction)

\* the selected slot is free for the known duration on the current case list
SelectedSlotFree ==
    isSlotAvailable(selectedSlot[1].or, selectedSlot[1].hour, prediction[1])

\* C12: a change of the predicted duration while a slot is selected invalidates
\* the selection.  Right after a new prediction has replaced the old one under a
\* selected slot, submission is enabled only if that slot is available for the new
\* duration.
C12_DurationInvalidatesSlot ==
    [][(/\ isModalOpen /\ isModalOpen'
        /\ selectedSlot # None /\ selectedSlot' = selectedSlot
        /\ prediction' # prediction)
            => (SubmitEnabled' => SelectedSlotFree')]_vars

\* C13: every change of the chosen specialty resets the surgeon selection.  Right
\* after the specialty select's handler has run doctor_name is empty, and the
\* completion of the average-prediction call it started, success or failure,
\* leaves doctor_name as it is: no earlier surgeon comes back.
C13_SpecialtyResetsSurgeon ==
    [][/\ (isModalOpen /\ isModalOpen' /\ form'.service # form.service)
            => form'.doctor_name = ""
       /\ (avgInFlight' # avgInFlight /\ avgInFlight' \subseteq avgInFlight)
            => form'.doctor_name = form.doctor_name]_vars

\* the surgeon pre-filled from the edited case is gone after the specialty was
\* changed and the suggested time has arrived
C13_Witness ==
    /\ isModalOpen
    /\ editCase # None
    /\ editCase[1].doctor_name # ""
    /\ form.service # editCase[1].service
    /\ form.doctor_name = ""
    /\ toast = "AI Model Suggested"

\* C14: results of network calls superseded by a newer user action are discarded.
\* The answer to a getAveragePrediction request for a specialty that is no longer
\* the chosen one leaves booked_time alone, and the answer to a getPrediction
\* request made for another date than the one the modal now shows (it was closed
\* and opened again in between) leaves prediction alone.
C14_StaleResultsDiscarded ==
    [][/\ \A val \in avgInFlight \ avgInFlight' :
              val # form.service => form'.booked_time = form.booked_time
       /\ \A req \in predictInFlight \ predictInFlight' :
              req.date # selectedDate => prediction' = prediction]_vars

\* C15: the booking interaction goes NoDuration -> SlotsShown -> SlotSelected.
\* The slot grid is enumerated only where a duration is known, and in every state
\* of the open modal, create or edit mode, a selected slot comes with a known
\* duration.
C15_DurationBeforeSlot ==
    isModalOpen =>
        /\ slotGrid # None => Truthy(prediction)
        /\ selectedSlot # None => Truthy(prediction)

\* a getPrediction, createCase, updateCase or deleteCase request is rejected
FailedOperation == PredictFail \/ SubmitFail \/ DeleteFail

\* C16: a failed external call leaves the session state unchanged and is never
\* read as "slot unavailable".  When getPrediction, createCase, updateCase,
\* deleteCase or the case fetch fails, the prediction, the selected slot, the form
\* values, the case list and the modal's open state stay as they were, the loading
\* flag an operation had set is cleared, no fetch is started and every slot of
\* a shown grid keeps its availability flag.
C16_FailureKeepsState ==
    [][/\ (FailedOperation \/ FetchFail) =>
              /\ UNCHANGED <<prediction, selectedSlot, form, cases, isModalOpen,
                             selectedDate, editCase, server>>
              /\ fetchInFlight' <= fetchInFlight
       /\ ((FailedOperation \/ FetchFail) /\ isModalOpen /\ Truthy(prediction)) =>
              slotGridIn(selectedDate', cases', editCase', selectedSlot', prediction')
                  = slotGrid
       /\ FailedOperation => (isLoading /\ ~isLoading')
       /\ FetchFail => isLoading' = isLoading]_vars

\* a rejected save with the modal still open on its slot, its duration and the
\* fetched case list
C16_Witness ==
    /\ toast = "Failed to save schedule"
    /\ isModalOpen
    /\ selectedSlot # None
    /\ Truthy(prediction)
    /\ cases # <<>>
    /\ ~isLoading

\* C17: after every successful createCase, updateCase or deleteCase the full case
\* list is fetched again, and a fetch that succeeds replaces the in-memory list
\* wholesale by the backend's list, mutation included; nothing else changes the
\* in-memory list, so one enumeration pass of the grid reads one list.
C17_RefreshAfterMutation ==
    [][/\ (SubmitSucceed \/ DeleteSucceed \/ server' # server)
            => (fetchInFlight' = fetchInFlight + 1 /\ cases' = cases)
       /\ FetchSucceed => cases' = server'
       /\ cases' # cases => (fetchInFlight' = fetchInFlight - 1 /\ cases' = server')]_vars

\* the refresh after a mutation has arrived: the in-memory list is the backend's
\* list and shows the mutation
C17_Witness ==
    /\ mutations > 0
    /\ server # Seed
    /\ cases = server
    /\ fetchInFlight = 0

\* C18: a create or update request is sent only from a state with a selected slot
\* and a predicted duration; onSubmit called with either missing raises the error
\* toast, sends no request and leaves prediction, selected slot, loading flag,
\* case list and open state as they were.
C18_SubmitNeedsSlotAndDuration ==
    [][/\ submitInFlight' \ submitInFlight # {}
            => (selectedSlot # None /\ Truthy(prediction))
       /\ SubmitRejected
            => /\ toast' = "Please select a time slot after getting prediction."
               /\ UNCHANGED <<prediction, selectedSlot, isLoading, cases, isModalOpen,
                              form, netVars>>]_vars

\* the submit button pressed on a stored case opened without a recorded duration
C18_Witness ==
    /\ toast = "Please select a time slot after getting prediction."
    /\ isModalOpen
    /\ selectedSlot # None
    /\ ~Truthy(prediction)
    /\ submitInFlight = {}
    /\ ~isLoading

\* no case but the edited one has the surgeon in the interval onSubmit would send
SurgeonFree(doc) ==
    LET startTime == setHours(selectedDate, selectedSlot[1].hour)
        endTime == addMinutes(startTime, prediction[1])
    IN ~(\E c \in Others(cases, editCase) :
            c.doctor_name = doc /\ Conflicts(startTime, endTime, c))

\* C19: a create or update request with a non-empty doctor_name names a surgeon
\* who is free for the submitted interval on the case list of the moment of
\* submission (getAvailableDoctors would keep the surgeon for the submitted slot
\* and duration), whatever happened since the surgeon was picked or pre-filled.
C19_SurgeonFreeAtSubmit ==
    [][\A req \in submitInFlight' \ submitInFlight :
          req.payload.doctor_name # "" => SurgeonFree(req.payload.doctor_name)]_vars

\* C20: a click on the slot grid sets the selected slot only to a (room, hour)
\* pair of the fixed grid that is available for the duration, the case list and
\* the edited case of the moment of the click; without a duration there is no
\* grid to click on.
C20_ClickSelectsAvailableSlot ==
    [][(isModalOpen /\ isModalOpen' /\ selectedSlot' # selectedSlot)
          => /\ Truthy(prediction)
             /\ selectedSlot' # None
             /\ \E i \in 1..Len(OR_SUITES) : selectedSlot'[1].or = OR_SUITES[i]
             /\ \E j \in 1..Len(TIME_SLOTS) : selectedSlot'[1].hour = TIME_SLOTS[j]
             /\ isSlotAvailable(selectedSlot'[1].or, selectedSlot'[1].hour,
                                prediction[1])]_vars

\* a slot picked in create mode on a grid that also has a disabled button
C20_Witness ==
    /\ isModalOpen
    /\ editCase = None
    /\ selectedSlot # None
    /\ Truthy(prediction)
    /\ SelectedSlotFree
    /\ \E slot \in ClickSlots : ~isSlotAvailable(slot.or, slot.hour, prediction[1])

\* the getPrediction, createCase, updateCase and deleteCase requests awaiting
\* their answer
OperationsInFlight ==
    Cardinality(predictInFlight) + Cardinality(submitInFlight)
        + Cardinality(deleteInFlight)

\* C21: at most one of get-prediction, submit and delete is in flight at any
\* time.  Each sets the loading flag when it starts and clears it when it ends,
\* so the flag is set exactly while one of them is in flight, and while it is set
\* the Predict, Submit and Delete controls start nothing: no second submit and no
\* delete while an update is pending.
C21_OneOperationInFlight ==
    [][/\ OperationsInFlight' <= 1
       /\ isLoading' <=> OperationsInFlight' = 1
       /\ isLoading =>
              /\ predictInFlight' \subseteq predictInFlight
              /\ submitInFlight' \subseteq submitInFlight
              /\ deleteInFlight' \subseteq deleteInFlight]_vars

\* an update is pending on a stored case: the loading flag is set and the delete
\* button of the open modal is disabled
C21_Witness ==
    /\ isModalOpen
    /\ editCase # None
    /\ isLoading
    /\ \E req \in submitInFlight : req.kind = "update" /\ req.id = editCase[1].id
    /\ deleteInFlight = {}

\* the modal shows the edited case as the open effect filled it in: slot, duration
\* and form fields untouched
Untouched ==
    /\ editCase # None
    /\ Truthy(editCase[1].actual_duration)
    /\ selectedDate = editCase[1].start
    /\ selectedSlot = Some([or |-> editCase[1].or_suite,
                            hour |-> getHours(editCase[1].start)])
    /\ prediction = editCase[1].actual_duration
    /\ form = [service |-> editCase[1].service,
               booked_time |-> editCase[1].booked_time,
               doctor_name |-> editCase[1].doctor_name]

\* C22: edit round trip.  A stored case with a recorded duration opened in edit
\* mode and submitted with slot, duration and fields untouched sends an update
\* whose room, start and end are the case's stored room, start and effective
\* end, whatever the stored start (off the whole hour, outside 08:00-18:00).
C22_EditRoundTrip ==
    [][\A req \in submitInFlight' \ submitInFlight :
          (req.kind = "update" /\ Untouched)
              => /\ req.id = editCase[1].id
                 /\ req.payload.or_suite = editCase[1].or_suite
                 /\ req.payload.wheels_in = editCase[1].start
                 /\ req.payload.wheels_out = EffectiveEnd(editCase[1])]_vars

====
